---- MODULE Spec2Model ----
(***************************************************************************)
(* Schema reflection of the D1 dialect (sqlalchemy_d1/dialect.py).         *)
(*                                                                         *)
(* The remote database is the variable db; it is only ever read.  A        *)
(* reflection call is one action: it issues its statement through the      *)
(* connection (Execute), shapes the rows and leaves its outcome in result, *)
(* the statements it issued in log and its own name and argument in call.  *)
(*                                                                         *)
(* Python values that may be None are tagged records: None, Str(s),        *)
(* PyInt(i).  A string is a sequence of one-character strings.  Names of   *)
(* tables, columns and indexes are never None and are plain sequences.     *)
(* The outcome of a call is Return(v) or Raise(e).  The reflection.cache   *)
(* decorator is the identity when no info_cache is passed, which is how    *)
(* the operations are called here.                                         *)
(***************************************************************************)
EXTENDS Integers, Sequences, FiniteSets, TLC

VARIABLES db, call, result, log

vars == <<db, call, result, log>>

(***************************************************************************)
(* Python values and outcomes                                              *)
(***************************************************************************)
None == [t |-> "None"]

Str(s) == [t |-> "str", v |-> s]

PyInt(i) == [t |-> "int", v |-> i]

Return(v) == [kind |-> "return", value |-> v]

Raise(e) == [kind |-> "raise", exc |-> e]

\* An exception raised below the dialect: by the driver, or by row access.
Error(type) == [type |-> type]

(***************************************************************************)
(* str methods                                                             *)
(***************************************************************************)
LowerCase == <<"a", "b", "c", "d", "e", "f", "g", "h", "i", "j", "k", "l", "m",
               "n", "o", "p", "q", "r", "s", "t", "u", "v", "w", "x", "y", "z">>

UpperCase == <<"A", "B", "C", "D", "E", "F", "G", "H", "I", "J", "K", "L", "M",
               "N", "O", "P", "Q", "R", "S", "T", "U", "V", "W", "X", "Y", "Z">>

UpperChar(c) ==
    IF \E i \in 1..Len(LowerCase) : LowerCase[i] = c
    THEN UpperCase[CHOOSE i \in 1..Len(LowerCase) : LowerCase[i] = c]
    ELSE c

\* s.upper()
Upper(s) == [i \in 1..Len(s) |-> UpperChar(s[i])]

\* s.startswith(p)
StartsWith(s, p) == Len(s) >= Len(p) /\ SubSeq(s, 1, Len(p)) = p

\* p in s
Contains(s, p) ==
    \E i \in 0..(Len(s) - Len(p)) : SubSeq(s, i + 1, i + Len(p)) = p

(***************************************************************************)
(* Loops over the fetched rows                                             *)
(***************************************************************************)
Min(S) == CHOOSE m \in S : \A n \in S : m <= n

\* Mutant of Collect: the rows shaped before the failing one are returned.
CollectPartial(shaped) ==
    LET bad == {i \in 1..Len(shaped) : shaped[i].kind = "raise"}
        n == IF bad # {} THEN Min(bad) - 1 ELSE Len(shaped)
    IN  Return([i \in 1..n |-> shaped[i].value])

\* [F(row) for row in rows], or a for loop appending F(row), given each row's
\* shaping: the first row whose shaping raises ends the loop with that
\* exception and the list built so far is dropped.
Collect(shaped) ==
    LET bad == {i \in 1..Len(shaped) : shaped[i].kind = "raise"}
    IN  IF bad # {}
        THEN shaped[Min(bad)]
        ELSE Return([i \in 1..Len(shaped) |-> shaped[i].value])

\* row[0] of a positional row
Column0(row) ==
    IF Len(row) >= 1 THEN Return(row[1]) ELSE Raise(Error("IndexError"))

\* row[key] of a mapping row, for every key a descriptor reads
HasKeys(row, keys) == keys \subseteq DOMAIN row

(***************************************************************************)
(* The statements the dialect issues.  A statement is the fixed text, the  *)
(* table name formatted into it (None when nothing is) and the bound       *)
(* parameters (None when there are none).                                  *)
(***************************************************************************)
SqlTableNames == "SELECT name FROM sqlite_master WHERE type='table';"

SqlViewNames == "SELECT name FROM sqlite_master WHERE type='view';"

SqlTableInfo == "PRAGMA table_info({table_name});"

SqlForeignKeyList == "PRAGMA foreign_key_list({table_name});"

SqlIndexes ==
    "SELECT name, sql FROM sqlite_schema WHERE type='index' AND tbl_name='{table_name}';"

SqlHasTable ==
    "SELECT 1 FROM sqlite_master WHERE type='table' AND name=:table_name;"

Statement(text, interpolated, params) ==
    [text |-> text, interpolated |-> interpolated, params |-> params]

TableNameParam(table_name) == [t |-> "dict", table_name |-> table_name]

(***************************************************************************)
(* The connection: execute(statement, params) evaluated by the database.   *)
(* db.master is sqlite_master (type, name, tbl_name, sql); db.table is the *)
(* table that PRAGMA table_info and PRAGMA foreign_key_list know, with     *)
(* db.table_info and db.foreign_key_list its rows (any other name gives no *)
(* rows).  db.health = "down" makes execute raise; db.corrupt = k > 0      *)
(* makes the k-th fetched row come back without its columns.               *)
(***************************************************************************)
MasterOfType(d, type) == SelectSeq(d.master, LAMBDA r : r.type = type)

NameRows(rows) == [i \in 1..Len(rows) |-> <<rows[i].name>>]

IndexRows(rows) ==
    [i \in 1..Len(rows) |-> [name |-> rows[i].name, sql |-> rows[i].sql]]

Answer(d, stmt) ==
    CASE stmt.text = SqlTableNames -> NameRows(MasterOfType(d, "table"))
      [] stmt.text = SqlViewNames -> NameRows(MasterOfType(d, "view"))
      [] stmt.text = SqlTableInfo ->
            IF stmt.interpolated = Str(d.table) THEN d.table_info ELSE <<>>
      [] stmt.text = SqlForeignKeyList ->
            IF stmt.interpolated = Str(d.table) THEN d.foreign_key_list ELSE <<>>
      [] stmt.text = SqlIndexes ->
            IndexRows(SelectSeq(d.master,
                LAMBDA r : r.type = "index" /\ Str(r.tbl_name) = stmt.interpolated))
      [] stmt.text = SqlHasTable ->
            LET hits == SelectSeq(d.master,
                    LAMBDA r : r.type = "table"
                               /\ TableNameParam(r.name) = stmt.params)
            IN  [i \in 1..Len(hits) |-> <<PyInt(1)>>]

Execute(d, stmt) ==
    IF d.health = "down"
    THEN Raise(Error("TransportFailure"))
    ELSE LET rows == Answer(d, stmt)
         IN  [kind |-> "return",
              rows |-> [i \in 1..Len(rows) |->
                          IF i = d.corrupt THEN <<>> ELSE rows[i]]]

\* One entry of log: a statement handed to connection.execute and its answer.
Issued(stmt, response) == [statement |-> stmt, response |-> response]

\* result.scalar(): the first column of the first row, None without rows
Scalar(rows) ==
    IF rows = <<>> THEN Return(None) ELSE Column0(rows[1])

(***************************************************************************)
(* except Exception as e: raise RuntimeError(f"...{table_name}...: {e}")   *)
(* The message holds the operation's text, the table name where the text   *)
(* has one, and str(e); raising inside the except block chains e as the    *)
(* new exception's context.                                                *)
(***************************************************************************)
RuntimeError(text, table, e) ==
    [type |-> "RuntimeError",
     message |-> [text |-> text, table |-> table, cause |-> e.type],
     context |-> e]

Wrap(outcome, text, table) ==
    IF outcome.kind = "raise"
    THEN Raise(RuntimeError(text, table, outcome.exc))
    ELSE outcome

\* What a call leaves behind: its outcome and the statements it issued.
Done(outcome, issued) == [result |-> outcome, log |-> issued]

(***************************************************************************)
(* get_schema_names                                                        *)
(***************************************************************************)
Main == <<"m", "a", "i", "n">>

get_schema_names(d) == Done(Return(<<Main>>), <<>>)

(***************************************************************************)
(* get_table_names, get_view_names                                         *)
(***************************************************************************)
CfPrefix == <<"_", "c", "f">>

\* Mutant of Visible: the prefix looked for anywhere in the name.
VisibleSubstring(names) == SelectSeq(names, LAMBDA n : ~Contains(n, CfPrefix))

Visible(names) == SelectSeq(names, LAMBDA n : ~StartsWith(n, CfPrefix))

NamesBody(response) ==
    IF response.kind = "raise" THEN response
    ELSE LET all == Collect([i \in 1..Len(response.rows) |-> Column0(response.rows[i])])
         IN  IF all.kind = "raise" THEN all ELSE Return(Visible(all.value))

get_table_names(d) ==
    LET stmt == Statement(SqlTableNames, None, None)
        response == Execute(d, stmt)
    IN  Done(Wrap(NamesBody(response), "Failed to fetch table names", None),
             <<Issued(stmt, response)>>)

get_view_names(d) ==
    LET stmt == Statement(SqlViewNames, None, None)
        response == Execute(d, stmt)
    IN  Done(Wrap(NamesBody(response), "Failed to fetch view names", None),
             <<Issued(stmt, response)>>)

(***************************************************************************)
(* has_table                                                               *)
(***************************************************************************)
HasTableBody(response) ==
    IF response.kind = "raise" THEN response
    ELSE LET first == Scalar(response.rows)
         IN  IF first.kind = "raise" THEN first
             ELSE Return(first.value # None)

\* Mutant of has_table: the name formatted into the text, like the PRAGMAs.
HasTableInterpolated(d, table_name) ==
    LET stmt == Statement(SqlHasTable, Str(table_name), None)
        response == Execute(d, stmt)
    IN  Done(Wrap(HasTableBody(response),
                  "Failed to check existence of table", Str(table_name)),
             <<Issued(stmt, response)>>)

has_table(d, table_name) ==
    LET stmt == Statement(SqlHasTable, None, TableNameParam(table_name))
        response == Execute(d, stmt)
    IN  Done(Wrap(HasTableBody(response),
                  "Failed to check existence of table", Str(table_name)),
             <<Issued(stmt, response)>>)

(***************************************************************************)
(* _resolve_type                                                           *)
(***************************************************************************)
KwINT == <<"I", "N", "T">>

KwCHAR == <<"C", "H", "A", "R">>

KwCLOB == <<"C", "L", "O", "B">>

KwTEXT == <<"T", "E", "X", "T">>

KwBLOB == <<"B", "L", "O", "B">>

KwREAL == <<"R", "E", "A", "L">>

KwFLOA == <<"F", "L", "O", "A">>

KwDOUB == <<"D", "O", "U", "B">>

KwNUMERIC == <<"N", "U", "M", "E", "R", "I", "C">>

KwDECIMAL == <<"D", "E", "C", "I", "M", "A", "L">>

KwBOOL == <<"B", "O", "O", "L">>

\* Mutant of _resolve_type: NUMERIC and DECIMAL tested before INT.
ResolveTypeNumericFirst(d1_type) ==
    IF d1_type = None THEN "NullType"
    ELSE LET t == Upper(d1_type.v)
         IN  IF Contains(t, KwNUMERIC) \/ Contains(t, KwDECIMAL) THEN "Numeric"
             ELSE IF Contains(t, KwINT) THEN "Integer"
             ELSE IF Contains(t, KwCHAR) \/ Contains(t, KwCLOB) \/ Contains(t, KwTEXT)
                  THEN "String"
             ELSE IF Contains(t, KwBLOB) THEN "LargeBinary"
             ELSE IF Contains(t, KwREAL) \/ Contains(t, KwFLOA) \/ Contains(t, KwDOUB)
                  THEN "Float"
             ELSE IF Contains(t, KwBOOL) THEN "Boolean"
             ELSE "String"

_resolve_type(d1_type) ==
    IF d1_type = None THEN "NullType"
    ELSE LET t == Upper(d1_type.v)
         IN  IF Contains(t, KwINT) THEN "Integer"
             ELSE IF Contains(t, KwCHAR) \/ Contains(t, KwCLOB) \/ Contains(t, KwTEXT)
                  THEN "String"
             ELSE IF Contains(t, KwBLOB) THEN "LargeBinary"
             ELSE IF Contains(t, KwREAL) \/ Contains(t, KwFLOA) \/ Contains(t, KwDOUB)
                  THEN "Float"
             ELSE IF Contains(t, KwNUMERIC) \/ Contains(t, KwDECIMAL) THEN "Numeric"
             ELSE IF Contains(t, KwBOOL) THEN "Boolean"
             ELSE "String"

(***************************************************************************)
(* get_columns                                                             *)
(***************************************************************************)
ColumnKeys == {"name", "type", "notnull", "dflt_value", "pk"}

\* Mutant of Column: every primary key column flagged, and the not-null flag
\* copied without its negation.
ColumnFlagsSlipped(row) ==
    IF ~(ColumnKeys \subseteq DOMAIN row) THEN Raise(Error("KeyError"))
    ELSE Return([name |-> row.name,
                 type |-> _resolve_type(row.type),
                 nullable |-> (row.notnull # 0),
                 default |-> row.dflt_value,
                 autoincrement |-> (row.pk # 0)])

Column(row) ==
    IF ~HasKeys(row, ColumnKeys) THEN Raise(Error("KeyError"))
    ELSE Return([name |-> row.name,
                 type |-> _resolve_type(row.type),
                 nullable |-> (row.notnull = 0),
                 default |-> row.dflt_value,
                 autoincrement |-> (row.pk = 1)])

ColumnsBody(response) ==
    IF response.kind = "raise" THEN response
    ELSE Collect([i \in 1..Len(response.rows) |-> Column(response.rows[i])])

get_columns(d, table_name) ==
    LET stmt == Statement(SqlTableInfo, Str(table_name), None)
        response == Execute(d, stmt)
    IN  Done(Wrap(ColumnsBody(response),
                  "Failed to fetch columns for table", Str(table_name)),
             <<Issued(stmt, response)>>)

(***************************************************************************)
(* get_pk_constraint                                                       *)
(***************************************************************************)
RECURSIVE Concat(_)
Concat(lists) ==
    IF lists = <<>> THEN <<>> ELSE Head(lists) \o Concat(Tail(lists))

\* [name for row in rows if row["pk"] != 0]: the condition is read first, the
\* name only of a row that passes it.
PkColumn(row) ==
    IF "pk" \notin DOMAIN row THEN Raise(Error("KeyError"))
    ELSE IF row.pk = 0 THEN Return(<<>>)
    ELSE IF "name" \notin DOMAIN row THEN Raise(Error("KeyError"))
    ELSE Return(<<row.name>>)

PkBody(response) ==
    IF response.kind = "raise" THEN response
    ELSE LET kept == Collect([i \in 1..Len(response.rows) |-> PkColumn(response.rows[i])])
         IN  IF kept.kind = "raise" THEN kept
             ELSE Return([constrained_columns |-> Concat(kept.value),
                          name |-> None])

get_pk_constraint(d, table_name) ==
    LET stmt == Statement(SqlTableInfo, Str(table_name), None)
        response == Execute(d, stmt)
    IN  Done(Wrap(PkBody(response),
                  "Failed to fetch primary key for", Str(table_name)),
             <<Issued(stmt, response)>>)

(***************************************************************************)
(* get_foreign_keys                                                        *)
(***************************************************************************)
ForeignKeyKeys == {"id", "from", "table", "to", "on_update", "on_delete"}

\* Mutant of ForeignKey: the local and the referred column exchanged.
ForeignKeySwapped(row) ==
    IF ~HasKeys(row, ForeignKeyKeys) THEN Raise(Error("KeyError"))
    ELSE Return([name |-> row.id,
                 constrained_columns |-> <<row.to>>,
                 referred_schema |-> None,
                 referred_table |-> row.table,
                 referred_columns |-> <<row.from>>,
                 options |-> [onupdate |-> row.on_update,
                              ondelete |-> row.on_delete]])

ForeignKey(row) ==
    IF ~HasKeys(row, ForeignKeyKeys) THEN Raise(Error("KeyError"))
    ELSE Return([name |-> row.id,
                 constrained_columns |-> <<row.from>>,
                 referred_schema |-> None,
                 referred_table |-> row.table,
                 referred_columns |-> <<row.to>>,
                 options |-> [onupdate |-> row.on_update,
                              ondelete |-> row.on_delete]])

ForeignKeysBody(response) ==
    IF response.kind = "raise" THEN response
    ELSE Collect([i \in 1..Len(response.rows) |-> ForeignKey(response.rows[i])])

get_foreign_keys(d, table_name) ==
    LET stmt == Statement(SqlForeignKeyList, Str(table_name), None)
        response == Execute(d, stmt)
    IN  Done(Wrap(ForeignKeysBody(response),
                  "Failed to fetch foreign keys for", Str(table_name)),
             <<Issued(stmt, response)>>)

(***************************************************************************)
(* _parse_index_columns                                                    *)
(***************************************************************************)
Whitespace == {" ", "\t", "\n", "\r"}

Quote == {"\""}

RECURSIVE LStrip(_, _)
LStrip(s, chars) ==
    IF s # <<>> /\ Head(s) \in chars THEN LStrip(Tail(s), chars) ELSE s

RECURSIVE RStrip(_, _)
RStrip(s, chars) ==
    IF s # <<>> /\ s[Len(s)] \in chars
    THEN RStrip(SubSeq(s, 1, Len(s) - 1), chars)
    ELSE s

\* s.strip() with chars = Whitespace, s.strip('"') with chars = Quote
Strip(s, chars) == RStrip(LStrip(s, chars), chars)

\* s.split(sep)
RECURSIVE Split(_, _)
Split(s, sep) ==
    LET cuts == {i \in 1..Len(s) : s[i] = sep}
    IN  IF cuts = {} THEN <<s>>
        ELSE <<SubSeq(s, 1, Min(cuts) - 1)>>
             \o Split(SubSeq(s, Min(cuts) + 1, Len(s)), sep)

\* re.search(r"\((.*?)\)", sql): the leftmost "(" from which a ")" is reached
\* over characters "." matches (any but a line break), and the shortest such
\* stretch as group 1; None when there is no match.
SearchParenGroup(sql) ==
    LET closes(i) == {j \in (i + 1)..Len(sql) : sql[j] = ")"}
        opens == {i \in 1..Len(sql) :
                    /\ sql[i] = "("
                    /\ closes(i) # {}
                    /\ \A k \in (i + 1)..(Min(closes(i)) - 1) : sql[k] # "\n"}
    IN  IF opens = {} THEN None
        ELSE Str(SubSeq(sql, Min(opens) + 1, Min(closes(Min(opens))) - 1))

_parse_index_columns(sql) ==
    LET m == SearchParenGroup(sql)
    IN  IF m # None
        THEN LET pieces == Split(m.v, ",")
             IN  [i \in 1..Len(pieces) |-> Strip(Strip(pieces[i], Whitespace), Quote)]
        ELSE <<>>

(***************************************************************************)
(* get_indexes, get_unique_constraints                                     *)
(***************************************************************************)
KwUNIQUE == <<"U", "N", "I", "Q", "U", "E">>

IndexKeys == {"name", "sql"}

\* row["sql"] or ""
SqlOrEmpty(value) == IF value = None \/ value = Str(<<>>) THEN <<>> ELSE value.v

Index(row) ==
    IF ~HasKeys(row, IndexKeys) THEN Raise(Error("KeyError"))
    ELSE LET sql == SqlOrEmpty(row.sql)
         IN  Return([name |-> row.name,
                     column_names |-> _parse_index_columns(sql),
                     unique |-> Contains(Upper(sql), KwUNIQUE),
                     primary_key |-> FALSE])

IndexesBody(response) ==
    IF response.kind = "raise" THEN response
    ELSE Collect([i \in 1..Len(response.rows) |-> Index(response.rows[i])])

get_indexes(d, table_name) ==
    LET stmt == Statement(SqlIndexes, Str(table_name), None)
        response == Execute(d, stmt)
    IN  Done(Wrap(IndexesBody(response),
                  "Failed to fetch indexes for", Str(table_name)),
             <<Issued(stmt, response)>>)

\* Mutant of UniqueConstraints: the test of idx["unique"] left out.
UniqueConstraintsUnfiltered(indexes) ==
    [i \in 1..Len(indexes) |->
        [name |-> indexes[i].name, column_names |-> indexes[i].column_names]]

UniqueConstraints(indexes) ==
    LET unique == SelectSeq(indexes, LAMBDA idx : idx.unique)
    IN  [i \in 1..Len(unique) |->
            [name |-> unique[i].name, column_names |-> unique[i].column_names]]

\* Mutant of get_unique_constraints: the index query issued a second time
\* for the loop.
GetUniqueConstraintsTwice(d, table_name) ==
    LET inner == get_indexes(d, table_name)
        again == get_indexes(d, table_name)
    IN  IF again.result.kind = "raise" THEN Done(again.result, inner.log \o again.log)
        ELSE Done(Return(UniqueConstraints(again.result.value)),
                  inner.log \o again.log)

\* No try of its own: what get_indexes raises passes through.
get_unique_constraints(d, table_name) ==
    LET inner == get_indexes(d, table_name)
    IN  IF inner.result.kind = "raise" THEN inner
        ELSE Done(Return(UniqueConstraints(inner.result.value)), inner.log)

(***************************************************************************)
(* The reflection calls                                                    *)
(***************************************************************************)
NoCall == [op |-> "none", table_name |-> None]

NoResult == [kind |-> "none"]

\* Each call leaves its name and argument in call, its outcome in result and
\* the statements it issued in log; the database is only read.
GetTableNames ==
    /\ call' = [op |-> "get_table_names", table_name |-> None]
    /\ result' = get_table_names(db).result
    /\ log' = get_table_names(db).log
    /\ UNCHANGED db

GetViewNames ==
    /\ call' = [op |-> "get_view_names", table_name |-> None]
    /\ result' = get_view_names(db).result
    /\ log' = get_view_names(db).log
    /\ UNCHANGED db

HasTable(t) ==
    /\ call' = [op |-> "has_table", table_name |-> Str(t)]
    /\ result' = has_table(db, t).result
    /\ log' = has_table(db, t).log
    /\ UNCHANGED db

GetColumns(t) ==
    /\ call' = [op |-> "get_columns", table_name |-> Str(t)]
    /\ result' = get_columns(db, t).result
    /\ log' = get_columns(db, t).log
    /\ UNCHANGED db

GetPkConstraint(t) ==
    /\ call' = [op |-> "get_pk_constraint", table_name |-> Str(t)]
    /\ result' = get_pk_constraint(db, t).result
    /\ log' = get_pk_constraint(db, t).log
    /\ UNCHANGED db

GetForeignKeys(t) ==
    /\ call' = [op |-> "get_foreign_keys", table_name |-> Str(t)]
    /\ result' = get_foreign_keys(db, t).result
    /\ log' = get_foreign_keys(db, t).log
    /\ UNCHANGED db

GetIndexes(t) ==
    /\ call' = [op |-> "get_indexes", table_name |-> Str(t)]
    /\ result' = get_indexes(db, t).result
    /\ log' = get_indexes(db, t).log
    /\ UNCHANGED db

GetUniqueConstraints(t) ==
    /\ call' = [op |-> "get_unique_constraints", table_name |-> Str(t)]
    /\ result' = get_unique_constraints(db, t).result
    /\ log' = get_unique_constraints(db, t).log
    /\ UNCHANGED db

GetSchemaNames ==
    /\ call' = [op |-> "get_schema_names", table_name |-> None]
    /\ result' = get_schema_names(db).result
    /\ log' = get_schema_names(db).log
    /\ UNCHANGED db

(***************************************************************************)
(* Databases the calls are checked against                                 *)
(***************************************************************************)
MaxMaster == 3

MaxTypeTokens == 2

MaxCols == 2

MaxFks == 2

MaxBody == 4

MaxIndexes == 2

MaxFaultRows == 2

SeqsUpTo(S, n) == UNION {[1..k -> S] : k \in 0..n}

Users == <<"u", "s", "r">>

Orders == <<"o", "r", "d">>

Tables == {Users, Orders}

Database(master, table_info, foreign_key_list, health, corrupt) ==
    [master |-> master, table |-> Users, table_info |-> table_info,
     foreign_key_list |-> foreign_key_list, health |-> health,
     corrupt |-> corrupt]

Idle == call = NoCall /\ result = NoResult /\ log = <<>>

MasterRow(type, name, tbl_name, sql) ==
    [type |-> type, name |-> name, tbl_name |-> tbl_name, sql |-> sql]

\* Tables and views, some carrying the platform's prefix, some nearly.
CatalogNames == {Users, <<"_", "c", "f", "_", "K", "V">>, <<"_", "c">>, <<"a", "_", "c", "f">>, <<"_", "C", "F", "x">>}

NameRowPool ==
    {MasterRow(type, n, n, None) : type \in {"table", "view"}, n \in CatalogNames}
    \cup {MasterRow("index", <<"_", "c", "f", "_", "i">>, Users, None)}

ProbedNames == {Users, <<"_", "c", "f", "_", "K", "V">>, Orders}

InitNames ==
    /\ db \in {Database(m, <<>>, <<>>, "up", 0) : m \in SeqsUpTo(NameRowPool, MaxMaster)}
    /\ Idle

NextNames ==
    \/ GetTableNames
    \/ GetViewNames
    \/ \E t \in ProbedNames : HasTable(t)

SpecNames == InitNames /\ [][NextNames]_vars

\* Declared types: pieces of type names in either case, chained.
TypeTokens == {<<"I", "N", "T">>,
               <<"i", "n">>,
               <<"t">>,
               <<"C", "H", "A", "R">>,
               <<"c", "l", "o", "b">>,
               <<"T", "e", "x", "t">>,
               <<"B", "L", "O", "B">>,
               <<"R", "E", "A", "L">>,
               <<"f", "l", "o", "a">>,
               <<"D", "O", "U", "B">>,
               <<"N", "U", "M", "E", "R", "I", "C">>,
               <<"d", "e", "c", "i", "m", "a", "l">>,
               <<"B", "O", "O", "L">>,
               <<"(", "1", "0", ")">>,
               <<" ">>,
               <<"X">>,
               <<"P", "O">>,
               <<"L", "E">>}

DeclaredTypes ==
    {None} \cup {Str(Concat(ts)) : ts \in SeqsUpTo(TypeTokens, MaxTypeTokens)}

TableInfoRow(name, type, notnull, dflt_value, pk) ==
    [name |-> name, type |-> type, notnull |-> notnull,
     dflt_value |-> dflt_value, pk |-> pk]

InitTypes ==
    /\ db \in {Database(<<>>, <<TableInfoRow(<<"c">>, ty, 0, None, 0)>>, <<>>, "up", 0) :
                ty \in DeclaredTypes}
    /\ Idle

NextTypes == \E t \in Tables : GetColumns(t)

SpecTypes == InitTypes /\ [][NextTypes]_vars

ColumnNames == {<<"i", "d">>, <<"a">>, <<"b">>}

ColumnTypes == {None, Str(<<"B", "I", "G", "I", "N", "T">>)}

Defaults == {None, Str(<<"'", "x", "'">>)}

\* PRAGMA table_info: distinct column names; the primary key columns carry
\* the ordinals 1..k of their place in the key, the others 0.
KeyOrdinals(n) ==
    {pk \in [1..n -> 0..n] :
        LET key == {i \in 1..n : pk[i] # 0}
        IN  /\ \A i, j \in key : i # j => pk[i] # pk[j]
            /\ \A i \in key : pk[i] <= Cardinality(key)}

DistinctNames(n) ==
    {names \in [1..n -> ColumnNames] :
        \A i, j \in 1..n : i # j => names[i] # names[j]}

InitColumns ==
    /\ \E n \in 0..MaxCols :
        \E names \in DistinctNames(n), ty \in [1..n -> ColumnTypes],
           nn \in [1..n -> {0, 1}], dv \in [1..n -> Defaults],
           pk \in KeyOrdinals(n) :
            db = Database(<<>>,
                          [i \in 1..n |->
                              TableInfoRow(names[i], ty[i], nn[i], dv[i], pk[i])],
                          <<>>, "up", 0)
    /\ Idle

NextColumns ==
    \/ \E t \in Tables : GetColumns(t)
    \/ \E t \in Tables : GetPkConstraint(t)

SpecColumns == InitColumns /\ [][NextColumns]_vars

ForeignKeyRow(id, seq, table, from, to, on_update, on_delete) ==
    [id |-> id, seq |-> seq, table |-> table, from |-> from, to |-> to,
     on_update |-> on_update, on_delete |-> on_delete, match |-> "NONE"]

Parent == <<"p", "a", "r", "e", "n", "t">>

Actions == {<<"CASCADE", "SET NULL">>, <<"NO ACTION", "RESTRICT">>}

\* PRAGMA foreign_key_list: one row per column of a foreign key; the rows of
\* a composite key share its id.
ForeignKeyRows ==
    {ForeignKeyRow(id, 0, Parent, from, to, act[1], act[2]) :
        id \in {0, 1}, from \in {<<"a">>, <<"b">>}, to \in {<<"x">>, <<"y">>},
        act \in Actions}
    \cup {ForeignKeyRow(0, 1, Orders, <<"b">>, <<"i", "d">>, "SET DEFAULT", "CASCADE")}

InitForeignKeys ==
    /\ db \in {Database(<<>>, <<>>, rows, "up", 0) :
                rows \in SeqsUpTo(ForeignKeyRows, MaxFks)}
    /\ Idle

NextForeignKeys == \E t \in Tables : GetForeignKeys(t)

SpecForeignKeys == InitForeignKeys /\ [][NextForeignKeys]_vars

\* Definition texts of indexes: how a CREATE INDEX statement begins, then
\* every text of up to MaxBody characters that a column list is written in.
SqlHeads == {<<>>,
             <<"C", "R", "E", "A", "T", "E", " ", "U", "N", "I", "Q", "U", "E", " ", "I", "N", "D", "E", "X", " ", "i", " ", "O", "N", " ", "t">>,
             <<"c", "r", "e", "a", "t", "e", " ", "U", "n", "i", "q", "u", "e", " ", "i", "n", "d", "e", "x", " ", "i", " ", "o", "n", " ", "t">>,
             <<"C", "R", "E", "A", "T", "E", " ", "I", "N", "D", "E", "X", " ", "i", " ", "O", "N", " ", "t">>,
             <<"C", "R", "E", "A", "T", "E", " ", "I", "N", "D", "E", "X", " ", "u", "n", "i", " ", "O", "N", " ", "q", "u", "e">>}

SqlTails == {<<>>, <<"(", "a", ")">>}

BodyChars == {"(", ")", ",", " ", "\"", "a", "\n"}

SqlTexts ==
    {None}
    \cup {Str(h \o b) : h \in SqlHeads, b \in SqlTails}
    \cup {Str(<<"t">> \o b) : b \in SeqsUpTo(BodyChars, MaxBody)}

\* A few definition texts, for catalogs of several indexes.
SqlSamples == {None,
               Str(<<"C", "R", "E", "A", "T", "E", " ", "U", "N", "I", "Q", "U", "E", " ", "I", "N", "D", "E", "X", " ", "i", " ", "O", "N", " ", "t", "(", "a", ",", " ", "\"", "b", "\"", ")">>),
               Str(<<"c", "r", "e", "a", "t", "e", " ", "u", "n", "i", "q", "u", "e", " ", "i", "n", "d", "e", "x", " ", "j", " ", "o", "n", " ", "t", " ", "(", "b", ")">>),
               Str(<<"C", "R", "E", "A", "T", "E", " ", "I", "N", "D", "E", "X", " ", "k", " ", "O", "N", " ", "t", "(", "a", ")">>)}

IndexNames == {<<"i">>, <<"j">>}

IndexRowSamples ==
    {MasterRow("index", n, t, sql) :
        n \in IndexNames, t \in Tables, sql \in SqlSamples}
    \cup {MasterRow("table", Users, Users, Str(<<"C", "R", "E", "A", "T", "E", " ", "T", "A", "B", "L", "E", " ", "u", "s", "r", "(", "a", " ", "U", "N", "I", "Q", "U", "E", ")">>))}

InitIndexes ==
    /\ \/ db \in {Database(<<MasterRow("index", <<"i">>, Users, sql)>>, <<>>, <<>>, "up", 0) :
                    sql \in SqlTexts}
       \/ db \in {Database(m, <<>>, <<>>, "up", 0) :
                    m \in SeqsUpTo(IndexRowSamples, MaxIndexes)}
    /\ Idle

NextIndexes ==
    \/ \E t \in Tables : GetIndexes(t)
    \/ \E t \in Tables : GetUniqueConstraints(t)

SpecIndexes == InitIndexes /\ [][NextIndexes]_vars

\* Every call, against a database that may be down or hand back a row
\* without its columns.
FaultyMasters ==
    SeqsUpTo({MasterRow("table", Users, Users, None),
              MasterRow("view", <<"_", "c", "f", "_", "v">>, <<"_", "c", "f", "_", "v">>, None),
              MasterRow("index", <<"i">>, Users, Str(<<"C", "R", "E", "A", "T", "E", " ", "U", "N", "I", "Q", "U", "E", " ", "I", "N", "D", "E", "X", " ", "i", " ", "O", "N", " ", "t", "(", "a", ")">>)),
              MasterRow("index", <<"j">>, Users, None)}, MaxFaultRows)

FaultyTableInfos ==
    SeqsUpTo({TableInfoRow(<<"i", "d">>, Str(<<"I", "N", "T", "E", "G", "E", "R">>), 1, None, 1),
              TableInfoRow(<<"a">>, None, 0, Str(<<"1">>), 0)}, MaxFaultRows)

FaultyForeignKeys ==
    SeqsUpTo({ForeignKeyRow(0, 0, Parent, <<"a">>, <<"x">>, "CASCADE", "SET NULL")},
             MaxFaultRows)

Init ==
    /\ \E health \in {"up", "down"}, corrupt \in 0..MaxFaultRows :
        \/ db \in {Database(m, <<>>, <<>>, health, corrupt) : m \in FaultyMasters}
        \/ db \in {Database(<<>>, rows, <<>>, health, corrupt) :
                    rows \in FaultyTableInfos}
        \/ db \in {Database(<<>>, <<>>, rows, health, corrupt) :
                    rows \in FaultyForeignKeys}
    /\ Idle

Next ==
    \/ GetTableNames
    \/ GetViewNames
    \/ \E t \in Tables : HasTable(t)
    \/ \E t \in Tables : GetColumns(t)
    \/ \E t \in Tables : GetPkConstraint(t)
    \/ \E t \in Tables : GetForeignKeys(t)
    \/ \E t \in Tables : GetIndexes(t)
    \/ \E t \in Tables : GetUniqueConstraints(t)

Spec == Init /\ [][Next]_vars

\* Every call of the reflection surface, get_schema_names included.
NextCalls ==
    \/ GetSchemaNames
    \/ Next

SpecCalls == Init /\ [][NextCalls]_vars

(***************************************************************************)
(* Properties.  FetchedRows are the rows the catalog returned to the call. *)
(***************************************************************************)
FetchedRows == log[1].response.rows

Returned(op) == call.op = op /\ result.kind = "return"

\* The k-th smallest member of a set of positions.
Nth(S, k) == CHOOSE i \in S : Cardinality({j \in S : j <= i}) = k

HasCfPrefix(n) == Len(n) >= 3 /\ n[1] = "_" /\ n[2] = "c" /\ n[3] = "f"

ListedNames(type) ==
    LET keep == {i \in 1..Len(db.master) :
                    db.master[i].type = type /\ ~HasCfPrefix(db.master[i].name)}
    IN  [k \in 1..Cardinality(keep) |-> db.master[Nth(keep, k)].name]

\* C1: get_table_names returns exactly the names of the 'table' rows of the
\* catalog that do not start with '_cf', in catalog order; get_view_names
\* does the same over the 'view' rows; no returned name starts with '_cf'.
C1_NamesFilteredInCatalogOrder ==
    /\ call.op = "get_table_names" => result = Return(ListedNames("table"))
    /\ call.op = "get_view_names" => result = Return(ListedNames("view"))
    /\ call.op \in {"get_table_names", "get_view_names"} =>
        \A i \in 1..Len(result.value) : ~HasCfPrefix(result.value[i])

\* A prefixed table stands between two visible ones, and both are listed.
C1_Witness ==
    /\ Returned("get_table_names")
    /\ Len(db.master) = 3
    /\ \A i \in 1..3 : db.master[i].type = "table"
    /\ HasCfPrefix(db.master[2].name)
    /\ result.value = <<db.master[1].name, db.master[3].name>>
    /\ db.master[1].name # db.master[3].name

\* The ordered rules of the type resolver: keywords and the type they give.
TypeRules ==
    <<[keywords |-> {KwINT}, type |-> "Integer"],
      [keywords |-> {KwCHAR, KwCLOB, KwTEXT}, type |-> "String"],
      [keywords |-> {KwBLOB}, type |-> "LargeBinary"],
      [keywords |-> {KwREAL, KwFLOA, KwDOUB}, type |-> "Float"],
      [keywords |-> {KwNUMERIC, KwDECIMAL}, type |-> "Numeric"],
      [keywords |-> {KwBOOL}, type |-> "Boolean"]>>

\* kw occurs in s, letter case of s ignored
OccursIgnoringCase(s, kw) ==
    \E i \in 0..(Len(s) - Len(kw)) :
        \A k \in 1..Len(kw) : UpperChar(s[i + k]) = kw[k]

MatchingRules(s) ==
    {r \in 1..Len(TypeRules) :
        \E kw \in TypeRules[r].keywords : OccursIgnoringCase(s, kw)}

FirstMatch(declared) ==
    IF declared = None THEN "NullType"
    ELSE IF MatchingRules(declared.v) = {} THEN "String"
    ELSE TypeRules[Min(MatchingRules(declared.v))].type

\* C2: the resolved type of every declared type is the type of the first
\* rule, in the order INT; CHAR, CLOB, TEXT; BLOB; REAL, FLOA, DOUB; NUMERIC,
\* DECIMAL; BOOL, with a keyword in the uppercased text; NullType for None and
\* String when no rule matches.
C2_FirstMatchingRuleWins ==
    Returned("get_columns") =>
        \A i \in 1..Len(result.value) :
            /\ result.value[i].type = FirstMatch(FetchedRows[i].type)
            /\ result.value[i].type \in
                {"NullType", "Integer", "String", "LargeBinary", "Float",
                 "Numeric", "Boolean"}

\* A declared type in lower case that two rules match, resolved by the earlier.
C2_Witness ==
    /\ Returned("get_columns")
    /\ Len(result.value) = 1
    /\ FetchedRows[1].type # None
    /\ MatchingRules(FetchedRows[1].type.v) = {1, 5}
    /\ Upper(FetchedRows[1].type.v) # FetchedRows[1].type.v
    /\ result.value[1].type = "Integer"

\* C3: get_columns returns one descriptor per table_info row, in row order,
\* with the row's name, the resolved declared type, nullable the negation of
\* notnull, the default literal unchanged and autoincrement exactly when the
\* pk ordinal is 1.
C3_ColumnsMirrorRows ==
    Returned("get_columns") =>
        /\ Len(result.value) = Len(FetchedRows)
        /\ \A i \in 1..Len(FetchedRows) :
            /\ result.value[i].name = FetchedRows[i].name
            /\ result.value[i].type = _resolve_type(FetchedRows[i].type)
            /\ result.value[i].nullable = ~(FetchedRows[i].notnull = 1)
            /\ result.value[i].default = FetchedRows[i].dflt_value
            /\ result.value[i].autoincrement = (FetchedRows[i].pk = 1)

\* Two columns: a not-null key column without default, a nullable one with.
C3_Witness ==
    /\ Returned("get_columns")
    /\ Len(result.value) = 2
    /\ FetchedRows[1].pk = 1 /\ FetchedRows[1].notnull = 1
    /\ FetchedRows[2].pk = 0 /\ FetchedRows[2].notnull = 0
    /\ FetchedRows[2].dflt_value # None
    /\ result.value[2].default = FetchedRows[2].dflt_value
    /\ result.value[1].autoincrement /\ ~result.value[2].autoincrement

KeyRows == {i \in 1..Len(FetchedRows) : FetchedRows[i].pk # 0}

\* The ordinal of a key column, by its name.
OrdinalOf(name) ==
    FetchedRows[CHOOSE i \in KeyRows : FetchedRows[i].name = name].pk

\* C4: get_pk_constraint returns name None and exactly the columns whose pk
\* ordinal is nonzero, each once, in ascending order of the ordinal.
C4_KeyColumnsInOrdinalOrder ==
    Returned("get_pk_constraint") =>
        LET cols == result.value.constrained_columns
        IN  /\ result.value.name = None
            /\ Len(cols) = Cardinality(KeyRows)
            /\ {cols[k] : k \in 1..Len(cols)} = {FetchedRows[i].name : i \in KeyRows}
            /\ \A k, l \in 1..Len(cols) :
                k < l => OrdinalOf(cols[k]) < OrdinalOf(cols[l])

\* C5: a column is flagged autoincrement if and only if it is the only
\* primary key column of the table, that is, if and only if
\* get_pk_constraint on the same rows lists exactly that column.
C5_AutoincrementOnlyForSoleKey ==
    Returned("get_columns") =>
        \A i \in 1..Len(result.value) :
            /\ result.value[i].autoincrement <=> (KeyRows = {i})
            /\ result.value[i].autoincrement <=>
                (PkBody(log[1].response).value.constrained_columns
                    = <<result.value[i].name>>)

\* C6: get_foreign_keys returns one descriptor per foreign_key_list row, in
\* row order, with name the row's id, constrained_columns [from],
\* referred_table table, referred_columns [to], referred_schema None and
\* options {onupdate: on_update, ondelete: on_delete}; rows sharing an id are
\* not grouped.
C6_OneForeignKeyPerRow ==
    Returned("get_foreign_keys") =>
        /\ Len(result.value) = Len(FetchedRows)
        /\ \A i \in 1..Len(FetchedRows) :
            /\ result.value[i].name = FetchedRows[i].id
            /\ result.value[i].constrained_columns = <<FetchedRows[i].from>>
            /\ Len(result.value[i].constrained_columns) = 1
            /\ result.value[i].referred_table = FetchedRows[i].table
            /\ result.value[i].referred_columns = <<FetchedRows[i].to>>
            /\ Len(result.value[i].referred_columns) = 1
            /\ result.value[i].referred_schema = None
            /\ result.value[i].options =
                [onupdate |-> FetchedRows[i].on_update,
                 ondelete |-> FetchedRows[i].on_delete]

\* The two rows of a composite foreign key, reported as two descriptors.
C6_Witness ==
    /\ Returned("get_foreign_keys")
    /\ Len(FetchedRows) = 2
    /\ FetchedRows[1].id = FetchedRows[2].id
    /\ FetchedRows[1].from # FetchedRows[2].from
    /\ FetchedRows[1].to # FetchedRows[2].from
    /\ Len(result.value) = 2
    /\ result.value[1].name = result.value[2].name

\* The text between the first "(" and the first ")" after it, split on
\* commas, each piece trimmed of whitespace and then of surrounding quotes.
FirstGroupColumns(text) ==
    LET opens == {i \in 1..Len(text) : text[i] = "("}
        closes == {j \in 1..Len(text) : text[j] = ")" /\ opens # {} /\ j > Min(opens)}
    IN  IF opens = {} \/ closes = {} THEN <<>>
        ELSE LET pieces == Split(SubSeq(text, Min(opens) + 1, Min(closes) - 1), ",")
             IN  [k \in 1..Len(pieces) |->
                    Strip(Strip(pieces[k], Whitespace), Quote)]

\* C7: get_indexes returns one descriptor per index row, in order, with
\* column_names the pieces of the first parenthesized group of the
\* definition text (empty when the text is absent or has no group), unique
\* exactly when the text holds UNIQUE in any letter case, and primary_key
\* false.
C7_IndexesParsedFromDefinition ==
    Returned("get_indexes") =>
        /\ Len(result.value) = Len(FetchedRows)
        /\ \A i \in 1..Len(FetchedRows) :
            LET sql == FetchedRows[i].sql
            IN  /\ result.value[i].name = FetchedRows[i].name
                /\ result.value[i].column_names =
                    (IF sql = None THEN <<>> ELSE FirstGroupColumns(sql.v))
                /\ result.value[i].unique =
                    (sql # None /\ OccursIgnoringCase(sql.v, KwUNIQUE))
                /\ result.value[i].primary_key = FALSE

\* What C7 says, of the definition texts that hold no line break.
IndexesParsedFromOneLineDefinition ==
    (/\ Returned("get_indexes")
     /\ \A i \in 1..Len(FetchedRows) :
            FetchedRows[i].sql # None =>
                \A k \in 1..Len(FetchedRows[i].sql.v) : FetchedRows[i].sql.v[k] # "\n")
        => C7_IndexesParsedFromDefinition

\* C8: get_unique_constraints returns exactly the unique entries of
\* get_indexes' result, in the same order, each as {name, column_names}.
C8_UniqueConstraintsAreUniqueIndexes ==
    Returned("get_unique_constraints") =>
        LET indexes == get_indexes(db, call.table_name.v).result.value
            unique == {i \in 1..Len(indexes) : indexes[i].unique}
        IN  /\ Len(result.value) = Cardinality(unique)
            /\ \A k \in 1..Len(result.value) :
                /\ result.value[k].name = indexes[Nth(unique, k)].name
                /\ result.value[k].column_names = indexes[Nth(unique, k)].column_names
                /\ DOMAIN result.value[k] = {"name", "column_names"}

\* A unique index listed after one that is not: only the second is reported.
C8_Witness ==
    /\ Returned("get_unique_constraints")
    /\ Len(FetchedRows) = 2
    /\ LET indexes == get_indexes(db, call.table_name.v).result.value
       IN  /\ ~indexes[1].unique /\ indexes[2].unique
           /\ indexes[2].column_names # <<>>
           /\ result.value =
                <<[name |-> indexes[2].name, column_names |-> indexes[2].column_names]>>

\* C9: has_table issues its probe once, with the table name as a bound
\* parameter and not in the statement text, and returns true if and only if
\* the probe returned at least one row.
C9_HasTableProbesWithBoundName ==
    call.op = "has_table" =>
        /\ Len(log) = 1
        /\ log[1].statement.text = SqlHasTable
        /\ log[1].statement.interpolated = None
        /\ log[1].statement.params = TableNameParam(call.table_name.v)
        /\ log[1].response.kind = "return" =>
            result = Return(Len(FetchedRows) >= 1)

\* A probe for a table of the catalog: one row comes back, the answer is true.
C9_Witness ==
    /\ Returned("has_table")
    /\ Len(FetchedRows) >= 1
    /\ result.value = TRUE
    /\ \E i \in 1..Len(db.master) :
        db.master[i].type = "table" /\ Str(db.master[i].name) = call.table_name

TableScoped ==
    {"get_columns", "get_pk_constraint", "get_foreign_keys", "get_indexes",
     "get_unique_constraints", "has_table"}

\* The positions of the fetched rows that came back without their columns.
Unshapable == {i \in 1..Len(FetchedRows) : DOMAIN FetchedRows[i] = {}}

\* What went wrong below the call, if anything did: the driver's exception,
\* or the failed access to the first row the call could not read (has_table
\* reads the first row only).
Failed ==
    \/ log[1].response.kind = "raise"
    \/ IF call.op = "has_table" THEN 1 \in Unshapable ELSE Unshapable # {}

Cause ==
    IF log[1].response.kind = "raise" THEN log[1].response.exc
    ELSE IF call.op \in {"get_table_names", "get_view_names", "has_table"}
         THEN Error("IndexError")
         ELSE Error("KeyError")

\* C10: when execute raises, or a fetched row cannot be shaped, the call
\* ends in a RuntimeError that carries the original exception and, for the
\* calls that take a table, the table name; the statement was issued once and
\* no list of descriptors is returned.  Otherwise the call returns.
C10_FailuresRaiseRuntimeError ==
    call.op # "none" =>
        /\ Len(log) = 1
        /\ IF Failed
           THEN /\ result.kind = "raise"
                /\ result.exc.type = "RuntimeError"
                /\ result.exc.context = Cause
                /\ result.exc.message.cause = Cause.type
                /\ call.op \in TableScoped =>
                    /\ call.table_name # None
                    /\ result.exc.message.table = call.table_name
           ELSE result.kind = "return"

\* The second of two table_info rows cannot be shaped: get_columns raises.
C10_Witness ==
    /\ call.op = "get_columns"
    /\ log[1].response.kind = "return"
    /\ Len(FetchedRows) = 2
    /\ Unshapable = {2}
    /\ result.kind = "raise"
    /\ result.exc.context = Error("KeyError")
    /\ result.exc.message.table = Str(Users)

Querying ==
    {"get_table_names", "get_view_names", "get_columns", "get_pk_constraint",
     "get_foreign_keys", "get_indexes", "get_unique_constraints", "has_table"}

\* What the last call gives when it is made once more on the database as
\* it now is.
Repeated ==
    LET t == call.table_name.v
    IN  CASE call.op = "get_schema_names" -> get_schema_names(db)
          [] call.op = "get_table_names" -> get_table_names(db)
          [] call.op = "get_view_names" -> get_view_names(db)
          [] call.op = "has_table" -> has_table(db, t)
          [] call.op = "get_columns" -> get_columns(db, t)
          [] call.op = "get_pk_constraint" -> get_pk_constraint(db, t)
          [] call.op = "get_foreign_keys" -> get_foreign_keys(db, t)
          [] call.op = "get_indexes" -> get_indexes(db, t)
          [] call.op = "get_unique_constraints" -> get_unique_constraints(db, t)

C11_WitnessNoRoundTrip ==
    /\ call.op = "get_schema_names"
    /\ db.health = "down"
    /\ log = <<>>
    /\ result = Return(<<Main>>)

====
